---- MODULE Spec2Model ----
(***************************************************************************)
(* Model of src/refresh.rs: RefreshFlow, the OAuth2 refresh-token flow.    *)
(* One RefreshFlow instance, its cached RefreshResult, the requests it     *)
(* sends and the values its refresh_token method returns.                  *)
(***************************************************************************)
EXTENDS Integers, Sequences, FiniteSets, TLC

(* ---------------------------------------------------------------- bounds *)

\* Number of refresh_token invocations explored on the instance.
MaxCalls == 3
\* Largest value of the wall clock (Utc::now().timestamp()) explored.
MaxNow == 2
\* Width in bits of the model's signed integers (i64 in the source, scaled).
Width == 4

(* --------------------------------------------------------- i64 arithmetic *)

RECURSIVE Pow2(_)
Pow2(n) == IF n = 0 THEN 1 ELSE 2 * Pow2(n - 1)

Modulus == Pow2(Width)
IntMax == Pow2(Width - 1) - 1
IntMin == -Pow2(Width - 1)

\* Two's-complement wrap of a mathematical integer into the signed width.
Wrap(x) == ((x - IntMin) % Modulus) + IntMin

(* ---------------------------------------------------------------- options *)

\* Option<T>: None is the empty sequence, Some(x) the one-element sequence.
None == <<>>
Some(x) == <<x>>
IsSome(o) == o # <<>>
Unwrap(o) == o[1]

(* ------------------------------------------------------------ environment *)

\* ApplicationSecret values a caller may pass (client_id, client_secret, token_uri).
ApplicationSecrets ==
    { [client_id |-> "X", client_secret |-> "Y", token_uri |-> "https://example/token"],
      [client_id |-> "X2", client_secret |-> "Y&2=z", token_uri |-> "https://other/token"] }

\* refresh_token arguments a caller may pass.
RefreshTokens == {"bogus_refresh_token", "1/other token"}

\* The spelling of each string the request body is built from: a sequence of
\* pieces, each a run of characters that form-urlencoding leaves alone
\* (letters, digits, '_', '-', '.', '*') or one single other character.
Spell(s) ==
    CASE s = "Y&2=z" -> <<"Y", "&", "2", "=", "z">>
      [] s = "1/other token" -> <<"1", "/", "other", " ", "token">>
      [] OTHER -> <<s>>

\* The HTTP client handed to RefreshFlow::new, and the one built inside the call.
InjectedClient == "injected hyper::Client"
LocalClient == "reqwest::Client::new()"

\* Response bodies a server may send.  json = FALSE is a body that is not JSON.
\* A JSON body is an object in which each of the fields may be present or not.
NotJson ==
    [json |-> FALSE, access_token |-> None, token_type |-> None,
     expires_in |-> None, refresh_token |-> None, error |-> None]

\* Objects holding any subset of the three fields of the token schema.
TokenBodies ==
    [json : {TRUE},
     access_token : {None, Some("1/fFAGRNJru1FTz70BzhT3Zg"), Some("2/other")},
     token_type : {None, Some("Bearer")},
     expires_in : {None, Some(-1), Some(0), Some(1), Some(IntMax)},
     refresh_token : {None},
     error : {None}]

\* Refusals: an error payload, alone or next to a full set of token fields.
ErrorBodies ==
    [json : {TRUE},
     access_token : {None},
     token_type : {None},
     expires_in : {None},
     refresh_token : {None},
     error : {Some("invalid_grant")}]
    \cup
    [json : {TRUE},
     access_token : {Some("1/fFAGRNJru1FTz70BzhT3Zg")},
     token_type : {Some("Bearer")},
     expires_in : {Some(1)},
     refresh_token : {None},
     error : {Some("invalid_grant")}]

\* Token bodies in which the server also sends a refresh token of its own.
RotatingBodies ==
    [json : {TRUE},
     access_token : {None, Some("2/other")},
     token_type : {Some("Bearer")},
     expires_in : {Some(1)},
     refresh_token : {Some("rotated_by_server")},
     error : {None}]

Bodies == {NotJson} \cup TokenBodies \cup ErrorBodies \cup RotatingBodies

\* What client.post(..).send() can give back: Err(e) for a transport failure,
\* Ok(res) for every HTTP response, whatever its status.
SendErr(d) == [ok |-> FALSE, description |-> Some(d), status |-> None, body |-> None]
SendOk(s, b) == [ok |-> TRUE, description |-> None, status |-> Some(s), body |-> Some(b)]

Statuses == {200, 400}

Responses ==
    {SendErr("connection refused")} \cup {SendOk(s, b) : s \in Statuses, b \in Bodies}

(* ------------------------------------------------------------------ types *)

\* Token as built at lines 96-102 (the struct itself is declared outside refresh.rs).
Token(at, tt, rt, ei, ts) ==
    [access_token |-> at, token_type |-> tt, refresh_token |-> rt,
     expires_in |-> ei, expires_in_timestamp |-> ts]

\* enum RefreshResult { Error(e), RefreshError(String, Option<String>), Success(Token) }
Error(e) ==
    [kind |-> "Error", err |-> Some(e), msg |-> None, detail |-> None, token |-> None]
RefreshError(m, d) ==
    [kind |-> "RefreshError", err |-> None, msg |-> Some(m), detail |-> d, token |-> None]
Success(t) ==
    [kind |-> "Success", err |-> None, msg |-> None, detail |-> None, token |-> Some(t)]

\* struct JsonToken { access_token: String, token_type: String, expires_in: i64 }
JsonToken(at, tt, ei) == [access_token |-> at, token_type |-> tt, expires_in |-> ei]

\* Token::expired at instant n: true iff n >= expires_in_timestamp.
isExpired(t, n) == n >= Unwrap(t.expires_in_timestamp)

(* ------------------------------------------------------------------ state *)

VARIABLES
    client,           \* RefreshFlow.client: the client given to RefreshFlow::new
    result,           \* RefreshFlow.result: the cached RefreshResult
    now,              \* Utc::now().timestamp()
    overflow_checks,  \* whether the build checks integer overflow (debug) or wraps (release)
    panicked,         \* the calling thread unwound out of refresh_token
    calls,            \* refresh_token invocations made so far
    nreq,             \* HTTP requests sent so far
    lastReq,          \* Option: the request most recently sent
    lastCall,         \* Option: arguments and course of the most recent invocation
    ret,              \* Option: the RefreshResult returned by the most recent invocation
    producer,         \* Option: the invocation that stored the cached Success
    other             \* a second RefreshFlow instance, used from another thread

vars == <<client, result, now, overflow_checks, panicked, calls, nreq,
          lastReq, lastCall, ret, producer, other>>

(* ------------------------------------------------------ RefreshFlow::new *)

\* Mutant of the constructor: the cache starts as Success of an empty Token.
new_success(c) == [client |-> c, result |-> Success(Token("", "", "", None, None))]

\* RefreshFlow { client: client, result: RefreshResult::Error(hyper::Error::TooLarge) }
new(c) == [client |-> c, result |-> Error("TooLarge")]

\* The client handed to the second instance's RefreshFlow::new.
OtherClient == "second injected hyper::Client"

\* The second instance after construction: its two fields, and where its caller
\* stands (pc), what it has done so far and what its invocation in flight holds.
OtherInit ==
    [client |-> new(OtherClient).client,
     result |-> new(OtherClient).result,
     pc |-> "idle",
     calls |-> 0,
     nreq |-> 0,
     ret |-> None,
     entry |-> None,
     peer_at_entry |-> None,
     refresh_token |-> None,
     request |-> None,
     response |-> None]

Init ==
    /\ client = new(InjectedClient).client
    /\ result = new(InjectedClient).result
    /\ now = 1
    /\ overflow_checks \in BOOLEAN
    /\ panicked = FALSE
    /\ calls = 0
    /\ nreq = 0
    /\ lastReq = None
    /\ lastCall = None
    /\ ret = None
    /\ producer = None
    /\ other = OtherInit

(* ------------------------------------------------ RefreshFlow::refresh_token *)

\* Mutants of the short-circuit test: never taken, taken on the wrong variant,
\* and taken on RefreshError as well.
ShortCircuit_never(r) == FALSE
ShortCircuit_wrongVariant(r) == r.kind = "RefreshError"
ShortCircuit_sticky(r) == r.kind \in {"Success", "RefreshError"}

\* if let RefreshResult::Success(_) = self.result { return &self.result; }
ShortCircuit(r) == r.kind = "Success"

\* The form body: extend_pairs over the four pairs, in this order.
FormBody(client_secret, refresh_token_arg) ==
    << <<"client_id", client_secret.client_id>>,
       <<"client_secret", client_secret.client_secret>>,
       <<"refresh_token", refresh_token_arg>>,
       <<"grant_type", "refresh_token">> >>

\* Mutant of the serializer: the pieces are written as they are, unescaped.
ByteSerialize_raw(pieces) == pieces

\* form_urlencoded::byte_serialize: ' ' becomes '+', every other character
\* outside the unreserved set becomes its %XX escape, the rest is kept.
ByteSerialize(pieces) ==
    [i \in 1..Len(pieces) |->
        CASE pieces[i] = " " -> "+"
          [] pieces[i] = "&" -> "%26"
          [] pieces[i] = "=" -> "%3D"
          [] pieces[i] = "/" -> "%2F"
          [] pieces[i] = "+" -> "%2B"
          [] pieces[i] = "%" -> "%25"
          [] OTHER -> pieces[i]]

\* Serializer::extend_pairs on an empty String: name=value, joined by '&'.
RECURSIVE ExtendPairs(_, _)
ExtendPairs(req, pairs) ==
    IF pairs = <<>> THEN req
    ELSE ExtendPairs((IF req = <<>> THEN <<>> ELSE req \o <<"&">>)
                         \o ByteSerialize(Spell(pairs[1][1])) \o <<"=">>
                         \o ByteSerialize(Spell(pairs[1][2])),
                     Tail(pairs))

\* The String `req` after extend_pairs, tabulated per pair of arguments.
SerializedBody[client_secret \in ApplicationSecrets, refresh_token_arg \in RefreshTokens] ==
    ExtendPairs(<<>>, FormBody(client_secret, refresh_token_arg))

\* let client = reqwest::Client::new();  (the client the request goes through)
RequestClient(self_client) == LocalClient

\* client.post(&client_secret.token_uri).header(ContentType(..)).body(req)
BuildRequest(self_client, client_secret, refresh_token_arg) ==
    [via |-> RequestClient(self_client),
     method |-> "POST",
     uri |-> client_secret.token_uri,
     content_type |-> "application/x-www-form-urlencoded",
     body |-> SerializedBody[client_secret, refresh_token_arg]]

\* Mutant of the decoder: a missing access_token defaults to the empty string.
DecodeJson_lenient(b) ==
    IF b.json /\ IsSome(b.token_type) /\ IsSome(b.expires_in)
    THEN Some(JsonToken(IF IsSome(b.access_token) THEN Unwrap(b.access_token) ELSE "",
                        Unwrap(b.token_type), Unwrap(b.expires_in)))
    ELSE None

\* res.json::<JsonToken>(): Some(JsonToken) when the body is a JSON object holding
\* the three fields (other fields are ignored), None for the decode error.
DecodeJson(b) ==
    IF b.json /\ IsSome(b.access_token) /\ IsSome(b.token_type) /\ IsSome(b.expires_in)
    THEN Some(JsonToken(Unwrap(b.access_token), Unwrap(b.token_type), Unwrap(b.expires_in)))
    ELSE None

\* a + b on i64: exact when it fits; otherwise a panic when the build checks
\* overflow and the wrapped value when it does not.
AddI64(a, b, checks) ==
    IF a + b >= IntMin /\ a + b <= IntMax
    THEN [panic |-> FALSE, value |-> a + b]
    ELSE IF checks THEN [panic |-> TRUE, value |-> 0]
    ELSE [panic |-> FALSE, value |-> Wrap(a + b)]

\* Mutant of the Token construction: refresh_token filled from the response.
NewToken_fromResponse(t, refresh_token_arg, sum) ==
    Token(t.access_token, t.token_type, t.access_token, None, Some(sum))

\* RefreshResult::Success(Token { access_token: t.access_token, token_type: t.token_type,
\*   refresh_token: refresh_token.to_string(), expires_in: None,
\*   expires_in_timestamp: Some(<sum>) })
NewToken(t, refresh_token_arg, sum) ==
    Token(t.access_token, t.token_type, refresh_token_arg, None, Some(sum))

\* Mutant of the Err arm: the description is also stored as the secondary detail.
FromSendErr_withDetail(description) == RefreshError(description, Some(description))

\* Err(e) => RefreshResult::RefreshError(e.description().to_owned(), None)
FromSendErr(description) == RefreshError(description, None)

\* The match on the response: [panic, result].  panic = TRUE when evaluating the
\* right-hand side of `self.result = match response {..}` unwinds.
Classify(response, refresh_token_arg, t_now, checks) ==
    IF ~response.ok
    THEN [panic |-> FALSE,
          result |-> FromSendErr(Unwrap(response.description))]
    ELSE LET t_result == DecodeJson(Unwrap(response.body)) IN
         IF ~IsSome(t_result)
         THEN [panic |-> FALSE, result |-> Error("decode")]
         ELSE LET t == Unwrap(t_result)
                  sum == AddI64(t_now, t.expires_in, checks)
              IN IF sum.panic
                 THEN [panic |-> TRUE, result |-> Error("unwound")]
                 ELSE [panic |-> FALSE,
                       result |-> Success(NewToken(t, refresh_token_arg, sum.value))]

\* &self.result : the value handed back is the cached outcome after the assignment.
Returned(before, after) == Some(after)

CallRecord(client_secret, refresh_token_arg, entry, sent, response, panic) ==
    [client_secret |-> client_secret, refresh_token |-> refresh_token_arg,
     entry |-> entry, sent |-> sent, response |-> response, at |-> now,
     panicked |-> panic]

\* refresh_token with the responses the transport may give drawn from `responses`.
refresh_token_from(responses, client_secret, refresh_token_arg) ==
    /\ ~panicked
    /\ calls < MaxCalls
    /\ calls' = calls + 1
    /\ UNCHANGED <<client, now, overflow_checks, other>>
    /\ IF ShortCircuit(result)
       THEN /\ ret' = Returned(result, result)
            /\ lastCall' = Some(CallRecord(client_secret, refresh_token_arg,
                                           result.kind, FALSE, None, FALSE))
            /\ UNCHANGED <<result, nreq, lastReq, panicked, producer>>
       ELSE LET request == BuildRequest(client, client_secret, refresh_token_arg) IN
            \E response \in responses :
            LET out == Classify(response, refresh_token_arg, now, overflow_checks) IN
            /\ nreq' = nreq + 1
            /\ lastReq' = Some(request)
            /\ lastCall' = Some(CallRecord(client_secret, refresh_token_arg,
                                           result.kind, TRUE, Some(response), out.panic))
            /\ IF out.panic
               THEN /\ panicked' = TRUE
                    /\ ret' = None
                    /\ UNCHANGED <<result, producer>>
               ELSE /\ result' = out.result
                    /\ ret' = Returned(result, out.result)
                    /\ producer' = IF out.result.kind = "Success"
                                   THEN lastCall' ELSE producer
                    /\ UNCHANGED panicked

refresh_token(client_secret, refresh_token_arg) ==
    refresh_token_from(Responses, client_secret, refresh_token_arg)

\* The wall clock advances between invocations.
Tick ==
    /\ ~panicked
    /\ now < MaxNow
    /\ now' = now + 1
    /\ UNCHANGED <<client, result, overflow_checks, panicked, calls, nreq,
                   lastReq, lastCall, ret, producer, other>>

(* ------------------------------------------- a second RefreshFlow instance *)

\* Mutant of the field access: the cache is one value shared by all instances.
SelfResult_shared(own, peer) == peer

\* self.result : the field of the instance the method is called on.
SelfResult(own, peer) == own

\* refresh_token on the second instance, up to the send: the short-circuit
\* return, or the request built and sent (lines 65-88).
other_begin(client_secret, refresh_token_arg) ==
    /\ other.pc = "idle"
    /\ other.calls < MaxCalls
    /\ IF ShortCircuit(SelfResult(other.result, result))
       THEN other' = [other EXCEPT
                !.calls = @ + 1,
                !.ret = Returned(SelfResult(other.result, result),
                                 SelfResult(other.result, result)),
                !.entry = Some(other.result.kind),
                !.peer_at_entry = Some(result.kind),
                !.refresh_token = Some(refresh_token_arg),
                !.response = None]
       ELSE other' = [other EXCEPT
                !.calls = @ + 1,
                !.nreq = @ + 1,
                !.pc = "sent",
                !.entry = Some(other.result.kind),
                !.peer_at_entry = Some(result.kind),
                !.refresh_token = Some(refresh_token_arg),
                !.request = Some(BuildRequest(other.client, client_secret,
                                              refresh_token_arg)),
                !.response = None]
    /\ UNCHANGED <<client, result, now, overflow_checks, panicked, calls, nreq,
                   lastReq, lastCall, ret, producer>>

\* refresh_token on the second instance, from the response on: the match, the
\* assignment to self.result and the return (lines 90-107).
other_end(responses) ==
    /\ other.pc = "sent"
    /\ \E response \in responses :
       LET out == Classify(response, Unwrap(other.refresh_token), now, overflow_checks) IN
       other' = IF out.panic
                THEN [other EXCEPT !.pc = "panicked", !.ret = None,
                                   !.response = Some(response)]
                ELSE [other EXCEPT !.pc = "idle",
                                   !.result = out.result,
                                   !.ret = Returned(other.result, out.result),
                                   !.response = Some(response)]
    /\ UNCHANGED <<client, result, now, overflow_checks, panicked, calls, nreq,
                   lastReq, lastCall, ret, producer>>

Next ==
    \/ \E cs \in ApplicationSecrets, rt \in RefreshTokens : refresh_token(cs, rt)
    \/ Tick

Spec == Init /\ [][Next]_vars

(* ----------------------------------------------------- reading the state *)

\* The most recent invocation, the request it sent and the response it got.
LastCall == Unwrap(lastCall)
LastSent == IsSome(lastCall) /\ LastCall.sent
LastResponse == Unwrap(LastCall.response)
LastBody == Unwrap(LastResponse.body)
LastCompleted == LastSent /\ LastResponse.ok
CachedToken == Unwrap(result.token)

\* A body that holds the three fields of {access_token, token_type, expires_in}.
WellFormed(b) ==
    b.json /\ b.access_token # None /\ b.token_type # None /\ b.expires_in # None

(* ----------------------------------------------------------------- claims *)

\* C1: once the cached outcome is Success it never changes again, and every
\* later invocation, whatever its arguments, returns that same Success.
C1_SuccessIsTerminal ==
    [][result.kind = "Success" =>
          /\ result' = result
          /\ (calls' # calls => ret' = Some(result))]_vars

\* C1 witness: a later invocation with other credentials and another refresh
\* token than the producing one was short-circuited and returned the cached Success.
C1_Witness ==
    /\ result.kind = "Success"
    /\ IsSome(lastCall) /\ IsSome(producer)
    /\ ~LastCall.sent
    /\ LastCall.refresh_token # Unwrap(producer).refresh_token
    /\ LastCall.client_secret # Unwrap(producer).client_secret
    /\ ret = Some(result)

\* C2: an invocation made while the cached outcome is Success sends no request.
C2_CachedSuccessSendsNothing ==
    [][(result.kind = "Success" /\ calls' = calls + 1) =>
          (nreq' = nreq /\ lastReq' = lastReq)]_vars

\* C2 witness: an invocation entered with Success cached, after which fewer
\* requests than invocations have been made.
C2_Witness ==
    /\ IsSome(lastCall)
    /\ LastCall.entry = "Success"
    /\ calls >= 2
    /\ nreq < calls

\* C3 (as claimed): a failed send gives RefreshResult::Error, and no Token.
C3_TransportFailureIsError ==
    (LastSent /\ ~LastResponse.ok) =>
        /\ IsSome(ret)
        /\ Unwrap(ret).kind = "Error"
        /\ Unwrap(ret).token = None

\* C4 (as claimed): a non-2xx response with an error payload gives
\* RefreshResult::RefreshError carrying the server's message.
C4_RefusalIsRefreshError ==
    (LastCompleted /\ Unwrap(LastResponse.status) \notin 200..299
                   /\ LastBody.error # None) =>
        /\ IsSome(ret)
        /\ Unwrap(ret).kind = "RefreshError"
        /\ Unwrap(ret).msg = LastBody.error

C6_SuccessTokenFields ==
    (LastCompleted /\ WellFormed(LastBody)) =>
        /\ IsSome(ret)
        /\ Unwrap(ret).kind = "Success"
        /\ LET t == Unwrap(Unwrap(ret).token) IN
           /\ Some(t.access_token) = LastBody.access_token
           /\ Some(t.token_type) = LastBody.token_type
           /\ t.expires_in_timestamp = Some(LastCall.at + Unwrap(LastBody.expires_in))
           /\ t.expires_in = None

\* C7: whenever Success is cached, the Token's refresh_token is the argument of
\* the invocation that produced it, and not a value from the server's response.
C7_RefreshTokenCarriedForward ==
    result.kind = "Success" =>
        /\ IsSome(producer)
        /\ Unwrap(producer).sent
        /\ CachedToken.refresh_token = Unwrap(producer).refresh_token
        /\ Some(CachedToken.refresh_token) #
               Unwrap(Unwrap(Unwrap(producer).response).body).refresh_token

\* C7 witness: Success was produced after an earlier failure from a response in
\* which the server sent a refresh token of its own, and a later invocation with
\* another argument was short-circuited.
C7_Witness ==
    /\ result.kind = "Success"
    /\ IsSome(producer) /\ IsSome(lastCall)
    /\ Unwrap(producer).entry = "RefreshError"
    /\ Unwrap(Unwrap(Unwrap(producer).response).body).refresh_token # None
    /\ ~LastCall.sent
    /\ LastCall.refresh_token # Unwrap(producer).refresh_token

\* C8 (as claimed): every request goes through the client given to RefreshFlow::new.
C8_RequestsUseInjectedClient ==
    IsSome(lastReq) => Unwrap(lastReq).via = client

\* C9: an invocation sends at most one request, and exactly one when the cached
\* outcome at entry is not Success.
C9_OneRequestPerCall ==
    [][calls' = calls + 1 =>
          /\ nreq' \in {nreq, nreq + 1}
          /\ (result.kind # "Success" => nreq' = nreq + 1)]_vars

\* C9 witness: every invocation made was entered without Success and sent a
\* request; the last one was entered with RefreshError cached and failed again.
C9_Witness ==
    /\ calls = MaxCalls
    /\ nreq = MaxCalls
    /\ LastSent
    /\ LastCall.entry = "RefreshError"
    /\ result.kind = "Error"

\* C10 (as claimed): an invocation entered with Error or RefreshError cached
\* sends a request, replaces the cached outcome by the classification of the
\* response, and returns the cached outcome.
C10_ErrorsNotSticky ==
    (IsSome(lastCall) /\ LastCall.entry \in {"Error", "RefreshError"}) =>
        /\ LastCall.sent
        /\ ret = Some(result)
        /\ result.kind = IF ~LastResponse.ok THEN "RefreshError"
                         ELSE IF WellFormed(LastBody) THEN "Success"
                         ELSE "Error"

\* C11 (as claimed): every invocation ends with exactly one of Error,
\* RefreshError or Success, as its returned value and as the cached outcome.
C11_ClassificationTotal ==
    IsSome(lastCall) =>
        /\ IsSome(ret)
        /\ ret = Some(result)
        /\ \/ result.kind = "Error" /\ IsSome(result.err)
                /\ result.msg = None /\ result.token = None
           \/ result.kind = "RefreshError" /\ IsSome(result.msg)
                /\ result.err = None /\ result.token = None
           \/ result.kind = "Success" /\ IsSome(result.token)
                /\ result.err = None /\ result.msg = None

\* C13 (as claimed): a Token returned with Success is not expired at the instant
\* of its creation, for every expires_in the response schema admits.
C13_FreshTokenNotExpired ==
    (LastCompleted /\ IsSome(ret) /\ Unwrap(ret).kind = "Success") =>
        ~isExpired(Unwrap(Unwrap(ret).token), LastCall.at)

\* C16: whenever RefreshError is cached or returned, its secondary detail is None.
C16_DetailAlwaysNone ==
    /\ result.kind = "RefreshError" => result.detail = None
    /\ (IsSome(ret) /\ Unwrap(ret).kind = "RefreshError") => Unwrap(ret).detail = None

\* C16 witness: RefreshError was stored by a second invocation, after an
\* earlier one had failed too.
C16_Witness ==
    /\ result.kind = "RefreshError"
    /\ IsSome(result.msg)
    /\ calls >= 2
    /\ LastSent /\ ~LastResponse.ok

\* C18: before any invocation the cached outcome is of the Error kind, never
\* Success, and the first invocation is not short-circuited and sends a request.
C18_NoUninitializedState ==
    /\ calls = 0 => (result.kind = "Error" /\ nreq = 0 /\ ret = None)
    /\ calls >= 1 => nreq >= 1
    /\ calls = 1 => (LastCall.sent /\ LastCall.entry = "Error" /\ IsSome(lastReq))

\* C18 witness: the first invocation on the instance has been made and sent a request.
C18_Witness ==
    /\ calls = 1
    /\ nreq = 1
    /\ LastSent
    /\ LastCall.entry = "Error"

\* Reading a form-urlencoded body back: split at '&', then at the first '=',
\* and undo the escapes.
PercentDecode(pieces) ==
    [i \in 1..Len(pieces) |->
        CASE pieces[i] = "+" -> " "
          [] pieces[i] = "%26" -> "&"
          [] pieces[i] = "%3D" -> "="
          [] pieces[i] = "%2F" -> "/"
          [] pieces[i] = "%2B" -> "+"
          [] pieces[i] = "%25" -> "%"
          [] OTHER -> pieces[i]]

RECURSIVE SplitAt(_, _, _, _)
SplitAt(sep, pieces, current, done) ==
    IF pieces = <<>> THEN Append(done, current)
    ELSE IF pieces[1] = sep
         THEN SplitAt(sep, Tail(pieces), <<>>, Append(done, current))
         ELSE SplitAt(sep, Tail(pieces), Append(current, pieces[1]), done)

FirstIndex(sep, pieces) ==
    IF \E i \in 1..Len(pieces) : pieces[i] = sep
    THEN CHOOSE i \in 1..Len(pieces) :
             pieces[i] = sep /\ \A j \in 1..(i - 1) : pieces[j] # sep
    ELSE Len(pieces) + 1

ParseField(field) ==
    LET k == FirstIndex("=", field) IN
    <<PercentDecode(SubSeq(field, 1, k - 1)),
      PercentDecode(SubSeq(field, k + 1, Len(field)))>>

ParseForm(body) ==
    LET fields == SplitAt("&", body, <<>>, <<>>) IN
    [i \in 1..Len(fields) |-> ParseField(fields[i])]

\* C12: every request is a POST to the credentials' token_uri with content type
\* application/x-www-form-urlencoded and a body of exactly the four fields
\* client_id, client_secret, refresh_token, grant_type, in this order, holding
\* the credentials' values, the refresh-token argument and "refresh_token".
C12_RequestShape ==
    LastSent =>
        /\ IsSome(lastReq)
        /\ Unwrap(lastReq).method = "POST"
        /\ Unwrap(lastReq).uri = LastCall.client_secret.token_uri
        /\ Unwrap(lastReq).content_type = "application/x-www-form-urlencoded"
        /\ ParseForm(Unwrap(lastReq).body) =
               << <<Spell("client_id"), Spell(LastCall.client_secret.client_id)>>,
                  <<Spell("client_secret"), Spell(LastCall.client_secret.client_secret)>>,
                  <<Spell("refresh_token"), Spell(LastCall.refresh_token)>>,
                  <<Spell("grant_type"), Spell("refresh_token")>> >>

\* C12 witness: a request was sent whose client_secret and refresh token hold
\* '&', '=', '/' and ' ', which the body carries escaped.
C12_Witness ==
    /\ LastSent
    /\ LastCall.client_secret.client_secret = "Y&2=z"
    /\ LastCall.refresh_token = "1/other token"
    /\ Unwrap(lastReq).body =
           <<"client_id", "=", "X2", "&",
             "client_secret", "=", "Y", "%26", "2", "%3D", "z", "&",
             "refresh_token", "=", "1", "%2F", "other", "+", "token", "&",
             "grant_type", "=", "refresh_token">>

\* What the same invocation gives when only the status of its response is s.
WithStatus(s) ==
    Classify(SendOk(s, LastBody), LastCall.refresh_token, LastCall.at, overflow_checks)

\* C17, first part: two completed responses with the same body and different
\* statuses are classified alike, as the invocation made shows for its own body.
C17_SameBodySameOutcome ==
    LastCompleted =>
        \A s \in Statuses :
            /\ WithStatus(s).panic = LastCall.panicked
            /\ ~LastCall.panicked => ret = Some(WithStatus(s).result)

\* C17 (as claimed): the outcome depends only on whether the send completed and
\* whether the body decodes, whatever the status; a non-2xx response with a
\* well-formed token body gives Success.
C17_StatusNeverConsulted ==
    /\ C17_SameBodySameOutcome
    /\ LastSent =>
           /\ IsSome(ret)
           /\ Unwrap(ret).kind = IF ~LastResponse.ok THEN "RefreshError"
                                 ELSE IF WellFormed(LastBody) THEN "Success"
                                 ELSE "Error"
    /\ (LastCompleted /\ Unwrap(LastResponse.status) \notin 200..299
                      /\ WellFormed(LastBody)) =>
           (IsSome(ret) /\ Unwrap(ret).kind = "Success")

(* --------------------------------------------- two instances, interleaved *)

\* The inputs explored with two instances: one set of credentials and three
\* responses, a failed send, the token body of the crate's test and a refusal.
TwoSecrets ==
    {cs \in ApplicationSecrets : cs.client_id = "X"}

TwoResponses ==
    {SendErr("connection refused")}
    \cup {SendOk(200, b) : b \in {t \in TokenBodies :
                                    /\ t.access_token = Some("1/fFAGRNJru1FTz70BzhT3Zg")
                                    /\ t.token_type = Some("Bearer")
                                    /\ t.expires_in = Some(1)}}
    \cup {SendOk(400, b) : b \in {e \in ErrorBodies : e.access_token = None}}

NextTwo ==
    \/ \E cs \in TwoSecrets, rt \in RefreshTokens :
           refresh_token_from(TwoResponses, cs, rt)
    \/ \E cs \in TwoSecrets, rt \in RefreshTokens : other_begin(cs, rt)
    \/ other_end(TwoResponses)
    \/ Tick

SpecTwo == Init /\ [][NextTwo]_vars

\* C14: the cached outcome of an instance changes only in steps of invocations
\* made on that instance, and an invocation on one instance whose own cache is
\* not Success sends its request whatever the other instance has cached.
C14_NoSharedState ==
    [][/\ result' # result => (calls' = calls + 1 /\ other' = other)
       /\ other'.result # other.result =>
              (other.pc = "sent" /\ result' = result /\ calls' = calls)
       /\ calls' = calls + 1 => other' = other
       /\ other' # other => UNCHANGED <<result, ret, calls, nreq, lastReq, lastCall>>
       /\ (other'.calls = other.calls + 1 /\ other.result.kind # "Success") =>
              (other'.nreq = other.nreq + 1 /\ other'.pc = "sent")
       /\ (calls' = calls + 1 /\ result.kind # "Success") => nreq' = nreq + 1]_vars

\* C14 witness: the second instance, its own cache an error, was invoked while
\* the first had Success cached, and its request is in flight; the first was
\* short-circuited meanwhile.
C14_Witness ==
    /\ result.kind = "Success"
    /\ other.pc = "sent"
    /\ other.peer_at_entry = Some("Success")
    /\ other.entry = Some("RefreshError")
    /\ other.result.kind = "RefreshError"
    /\ other.nreq = 2
    /\ IsSome(lastCall) /\ ~LastCall.sent

(* ------------------------------------------------ a caller that retries forever *)

\* The responses explored with a retrying caller: a failed send, a refusal, and
\* token bodies with a lifetime that fits and with one that overflows the sum.
LiveResponses ==
    {SendErr("connection refused")}
    \cup {SendOk(400, b) : b \in {e \in ErrorBodies : e.access_token = None}}
    \cup {SendOk(200, b) : b \in {t \in TokenBodies :
                                    /\ t.access_token = Some("1/fFAGRNJru1FTz70BzhT3Zg")
                                    /\ t.token_type = Some("Bearer")
                                    /\ t.expires_in \in {Some(1), Some(IntMax)}}}

\* The responses among them that carry a well-formed success body.
LiveSuccessResponses ==
    {r \in LiveResponses : r.ok /\ WellFormed(Unwrap(r.body))}

\* The caller invokes refresh_token once more.
Retry ==
    \E cs \in TwoSecrets, rt \in RefreshTokens : refresh_token_from(LiveResponses, cs, rt)

\* An invocation to which, if it sends, a well-formed success body is delivered.
RetryDelivered ==
    \E cs \in TwoSecrets, rt \in RefreshTokens :
        refresh_token_from(LiveSuccessResponses, cs, rt)

\* The count of invocations and requests starts afresh, so that the caller can
\* go on invoking without end.
CountAfresh ==
    /\ calls = MaxCalls
    /\ calls' = 0
    /\ nreq' = 0
    /\ UNCHANGED <<client, result, now, overflow_checks, panicked, lastReq,
                   lastCall, ret, producer, other>>

\* The caller catches the unwinding of an invocation and carries on with the
\* same instance, whose cached outcome the unwound invocation did not assign.
CatchUnwind ==
    /\ panicked
    /\ panicked' = FALSE
    /\ UNCHANGED <<client, result, now, overflow_checks, calls, nreq, lastReq,
                   lastCall, ret, producer, other>>

LiveNext ==
    \/ Retry
    \/ CountAfresh
    \/ CatchUnwind
    \/ Tick

\* The caller keeps invoking, and a well-formed success body is delivered to
\* an invocation again and again as long as invocations send requests.
LiveSpec ==
    /\ Init
    /\ [][LiveNext]_vars
    /\ WF_vars(CountAfresh)
    /\ WF_vars(CatchUnwind)
    /\ SF_vars(RetryDelivered)

\* C15 (as claimed): under retry and a fair transport and server the instance
\* eventually has Success cached and keeps it forever.
C15_EventuallySuccess ==
    <>[](result.kind = "Success")

\* C15 in a build that does not check overflow, where the sum of C6 wraps.
C15_EventuallySuccessWhenWrapping ==
    (~overflow_checks) => <>[](result.kind = "Success")

====
